---------------------------- MODULE Spec2Model ----------------------------
(***************************************************************************)
(* Online threshold knapsack against the offline fractional optimum        *)
(* (part2.ipynb): online_knapsack, offline_knapsack and the experiment     *)
(* driver test().                                                          *)
(*                                                                         *)
(* Numbers.  Weights, capacities and value densities are integers (a       *)
(* weight unit and a density unit); an item's value is density * weight.   *)
(* The float64 quantities the code derives through np.log and np.exp       *)
(* (beta, y / beta, threshold) are fixed-point numbers with SCALE units    *)
(* per 1, with NaN kept as a separate value, because the code's decisions  *)
(* under a NaN differ from its decisions under any number.  The series     *)
(* truncate: a fixed-point value lies within 0.2% below the float64 one,   *)
(* and is exact where the code's is (ln 1 = 0, exp 0 = 1).  No density of  *)
(* Ratios lies that close to a threshold, except at y = max_weight, where  *)
(* no item fits.                                                           *)
(***************************************************************************)
EXTENDS Integers, Sequences, FiniteSets

\* ------------------------------------------------------------------ bounds
MaxItems == 3       \* longest item stream
MaxWeight == 2      \* heaviest item, in weight units
MaxCap == 3         \* largest max_weight, in weight units
MaxTrials == 2      \* iterations of the trial loop of test(), for range(100)

\* Fixed-point resolution of the float64 values.
SCALE == 10000

\* (p_min, p_max) pairs given to online_knapsack: the notebook's setting
\* (1, 5), the degenerate settings p_min = p_max, and p_min <= 0.
Densities == {<<1, 5>>, <<1, 1>>, <<2, 2>>, <<0, 5>>, <<-1, 5>>, <<-1, -1>>}

\* --------------------------------------------------------------- the items
Item(value, weight, ratio) == [value |-> value, weight |-> weight, ratio |-> ratio]

\* Item(value, weight, value/weight) for a density d drawn for the weight.
NewItem(d, weight) == Item(d * weight, weight, (d * weight) \div weight)

ItemsOf(ratios) == {NewItem(d, w) : d \in ratios, w \in 1..MaxWeight}

StreamsOf(itemSet, lens) == UNION {[1..k -> itemSet] : k \in lens}

\* ------------------------------------------------------------------ floats
Real(v) == [nan |-> FALSE, v |-> v]
NaN == [nan |-> TRUE, v |-> 0]

\* IEEE comparisons: every comparison with a NaN is false.
Lt(a, b) == ~a.nan /\ ~b.nan /\ a.v < b.v
Gt(a, b) == ~a.nan /\ ~b.nan /\ a.v > b.v

RECURSIVE AtanhSeries(_, _, _, _)
\* sum over odd k of z^k / k, z and pow = z^k in fixed point.
AtanhSeries(pow, z2, k, acc) ==
    IF pow = 0 \/ k > 80 THEN acc
    ELSE AtanhSeries((pow * z2) \div SCALE, z2, k + 2, acc + pow \div k)

\* np.log(a / b) for a >= b > 0: ln x = 2 atanh((x - 1) / (x + 1)).
LogQuotient(a, b) ==
    LET z == ((a - b) * SCALE) \div (a + b)
    IN  2 * AtanhSeries(z, (z * z) \div SCALE, 1, 0)

\* np.log(p_max / p_min) for p_min # 0 and a quotient that is negative (NaN,
\* numpy warns and goes on) or at least 1.
Log(p_max, p_min) ==
    CASE p_min > 0 /\ p_max >= p_min -> Real(LogQuotient(p_max, p_min))
      [] p_min < 0 /\ p_max > 0 -> NaN
      [] p_min < 0 /\ p_max <= p_min -> Real(LogQuotient(-p_max, -p_min))

RECURSIVE ExpSeries(_, _, _, _)
\* sum over k of x^k / k!, term = x^k / k! in fixed point.
ExpSeries(term, x, k, acc) ==
    IF term = 0 \/ k > 40 THEN acc
    ELSE ExpSeries((term * x) \div (k * SCALE), x, k + 1, acc + term)

\* np.exp(x)
Exp(x) == IF x.nan THEN NaN ELSE Real(ExpSeries(SCALE, x.v, 1, 0))

\* beta = max_weight / (1 + np.log(p_max / p_min))
Beta(max_weight, p_min, p_max) ==
    LET l == Log(p_max, p_min)
    IN  IF l.nan THEN NaN
        ELSE Real((max_weight * SCALE * SCALE) \div (SCALE + l.v))

\* y / beta in float64: 0 / 0.0 is NaN (numpy warns and goes on).  y > 0 over
\* beta = 0 would be inf; beta = 0 needs max_weight = 0, where y stays 0.
Quotient(y, beta) ==
    CASE beta.nan -> NaN
      [] beta.v = 0 /\ y = 0 -> NaN
      [] beta.v # 0 -> Real((y * SCALE * SCALE) \div beta.v)

\* y/beta-2 instead of y/beta-1
ThresholdShifted(y, beta, p_min) ==
    IF Lt(Real(y * SCALE), beta) THEN Real(p_min * SCALE)
    ELSE LET e == Exp(LET q == Quotient(y, beta)
                      IN  IF q.nan THEN NaN ELSE Real(q.v - 2 * SCALE))
         IN  IF e.nan THEN NaN ELSE Real(p_min * e.v)

\* 1-y/beta instead of y/beta-1
ThresholdFlipped(y, beta, p_min) ==
    IF Lt(Real(y * SCALE), beta) THEN Real(p_min * SCALE)
    ELSE LET e == Exp(LET q == Quotient(y, beta)
                      IN  IF q.nan THEN NaN ELSE Real(SCALE - q.v))
         IN  IF e.nan THEN NaN ELSE Real(p_min * e.v)

\* threshold = p_min if y < beta else p_min * np.exp(y/beta-1)
Threshold(y, beta, p_min) ==
    IF Lt(Real(y * SCALE), beta) THEN Real(p_min * SCALE)
    ELSE LET e == Exp(LET q == Quotient(y, beta)
                      IN  IF q.nan THEN NaN ELSE Real(q.v - SCALE))
         IN  IF e.nan THEN NaN ELSE Real(p_min * e.v)

\* the capacity test made on y alone
AcceptsBeforeAdding(item, y, threshold, max_weight) ==
    /\ Gt(Real(item.ratio * SCALE), threshold)
    /\ y <= max_weight

\* the capacity test dropped
AcceptsAnyWeight(item, y, threshold, max_weight) ==
    Gt(Real(item.ratio * SCALE), threshold)

\* >= for >
AcceptsAtThreshold(item, y, threshold, max_weight) ==
    /\ ~threshold.nan
    /\ item.ratio * SCALE >= threshold.v
    /\ y + item.weight <= max_weight

\* item.ratio > threshold and y + item.weight <= max_weight
Accepts(item, y, threshold, max_weight) ==
    /\ Gt(Real(item.ratio * SCALE), threshold)
    /\ y + item.weight <= max_weight

\* total_value += item.ratio
OnlineStepAddsRatio(st, item, beta, p_min, max_weight) ==
    IF Accepts(item, st.y, Threshold(st.y, beta, p_min), max_weight)
    THEN [y |-> st.y + item.weight, total_value |-> st.total_value + item.ratio]
    ELSE st

\* One iteration of the loop of online_knapsack on the running (y, total_value).
OnlineStep(st, item, beta, p_min, max_weight) ==
    IF Accepts(item, st.y, Threshold(st.y, beta, p_min), max_weight)
    THEN [y |-> st.y + item.weight, total_value |-> st.total_value + item.value]
    ELSE st

RECURSIVE OnlineLoop(_, _, _, _, _, _)
OnlineLoop(st, items, k, beta, p_min, max_weight) ==
    IF k > Len(items) THEN st
    ELSE OnlineLoop(OnlineStep(st, items[k], beta, p_min, max_weight),
                    items, k + 1, beta, p_min, max_weight)

\* online_knapsack(items, p_min, p_max, max_weight) for p_min # 0: its return value.
online_knapsack(items, p_min, p_max, max_weight) ==
    OnlineLoop([y |-> 0, total_value |-> 0], items, 1,
               Beta(max_weight, p_min, p_max), p_min, max_weight).total_value


\* ------------------------------------------------------- the offline optimum
Some(v) == [none |-> FALSE, v |-> v]
None == [none |-> TRUE, v |-> 0]

\* Stable insertion of an item behind the items whose ratio is not larger.
InsertByRatio(sorted, item) ==
    LET k == Cardinality({i \in 1..Len(sorted) : sorted[i].ratio <= item.ratio})
    IN  SubSeq(sorted, 1, k) \o <<item>> \o SubSeq(sorted, k + 1, Len(sorted))

RECURSIVE SortFrom(_, _, _)
SortFrom(sorted, items, k) ==
    IF k > Len(items) THEN sorted
    ELSE SortFrom(InsertByRatio(sorted, items[k]), items, k + 1)

\* sorted(items, key=lambda item: item.ratio)
SortedByRatio(items) == SortFrom(<<>>, items, 1)

RECURSIVE FillByDensity(_, _, _, _, _)
\* The minimum of c.x over a.x <= cap, 0 <= x <= 1 (a > 0, c <= 0, cap >= 0):
\* the variables are raised in the order of c[i] / a[i], the last one in part.
FillByDensity(c, a, cap, left, acc) ==
    IF cap = 0 \/ left = {} THEN acc
    ELSE LET i == CHOOSE i \in left : \A j \in left : c[i] * a[j] <= c[j] * a[i]
             part == IF a[i] <= cap THEN a[i] ELSE cap
         IN  FillByDensity(c, a, cap - part, left \ {i}, acc + (c[i] * part) \div a[i])

\* linprog(c, A_ub, b_ub, bounds=[(0, 1)] * n, method="HiGHS") with one constraint
\* row: status 0 and the optimal objective, or status 2 (infeasible: every
\* a.x >= 0 > b_ub) or 4 (numerical difficulties) and fun None.
linprog(c, A_ub, b_ub, numerical) ==
    CASE numerical -> [status |-> 4, fun |-> None]
      [] ~numerical /\ b_ub < 0 -> [status |-> 2, fun |-> None]
      [] OTHER -> [status |-> 0,
                   fun |-> Some(FillByDensity(c, A_ub, b_ub, DOMAIN c, 0))]

\* every constraint coefficient read from the first item
offline_knapsack_first_weight(items, max_weight, numerical) ==
    LET objective == [i \in DOMAIN items |-> -items[i].value]
        constraints == [i \in DOMAIN items |-> items[1].weight]
        result == linprog(objective, constraints, max_weight, numerical)
    IN  [status |-> result.status, ret |-> result.fun]

\* offline_knapsack(items, max_weight): the solver's status and the value
\* returned, result.fun.  numerical: the solver meets numerical difficulties.
offline_knapsack(items, max_weight, numerical) ==
    LET objective == [i \in DOMAIN items |-> -items[i].value]
        constraints == [i \in DOMAIN items |-> items[i].weight]
        result == linprog(objective, constraints, max_weight, numerical)
    IN  [status |-> result.status, ret |-> result.fun]

\* ------------------------------------------------------------------- state
VARIABLES
    items,            \* the item stream (online_knapsack's argument, test()'s local)
    p_min, p_max,     \* density bounds
    max_weight,       \* capacity
    \* online_knapsack
    pc,               \* "call", "loop", "done", "raised"
    beta,
    idx,              \* position of the for loop in items
    y,                \* accepted weight
    total_value,      \* accepted value
    threshold,        \* threshold of the last iteration
    ret,              \* value returned
    err,              \* exception raised
    \* test()
    tpc,              \* "generate", "offline", "online", "record", "mean", "done", "raised"
    n,                \* items per trial
    epsilon,          \* largest weight drawn
    adverserial,
    trial,            \* the loop variable i
    weights, values,  \* the trial's draws, in generation order
    status,           \* the solver's status of the trial
    fun,              \* value returned by offline_knapsack
    offline, online,  \* the trial's results
    offline_results, online_results,
    means,            \* value returned by test()
    terr              \* exception raised in test()

args == <<items, p_min, p_max, max_weight>>
ovars == <<pc, beta, idx, y, total_value, threshold, ret, err>>
tvars == <<tpc, n, epsilon, adverserial, trial, weights, values, status, fun,
           offline, online,
           offline_results, online_results, means, terr>>
vars == <<args, ovars, tvars>>

\* Value densities of the items given to online_knapsack: at and above the
\* p_min of Densities, and below the largest.
Ratios == {1, 2, 3}

OnlineIdle ==
    /\ pc = "idle" /\ beta = NaN /\ idx = 0 /\ y = 0 /\ total_value = 0
    /\ threshold = NaN /\ ret = None /\ err = "none"

TestIdle ==
    /\ tpc = "idle" /\ n = 0 /\ epsilon = 0 /\ adverserial = FALSE /\ trial = 0
    /\ weights = <<>> /\ values = <<>>
    /\ status = 0 /\ fun = None /\ offline = None /\ online = None
    /\ offline_results = <<>> /\ online_results = <<>>
    /\ means = <<>> /\ terr = "none"

\* ------------------------------------------------- online_knapsack, by step
\* A call online_knapsack(items, p_min, p_max, max_weight).
Init ==
    /\ items \in StreamsOf(ItemsOf(Ratios), 0..MaxItems)
    /\ \E d \in Densities : p_min = d[1] /\ p_max = d[2]
    /\ max_weight \in 0..MaxCap
    /\ pc = "call" /\ beta = NaN /\ idx = 0 /\ y = 0 /\ total_value = 0
    /\ threshold = NaN /\ ret = None /\ err = "none"
    /\ TestIdle

\* total_value = 0; y = 0; beta = max_weight / (1 + np.log(p_max / p_min)):
\* p_max / p_min raises ZeroDivisionError for p_min = 0.
Call ==
    /\ pc = "call"
    /\ IF p_min = 0
       THEN /\ pc' = "raised" /\ err' = "ZeroDivisionError"
            /\ UNCHANGED <<beta, idx, y, total_value>>
       ELSE /\ pc' = "loop" /\ idx' = 1 /\ y' = 0 /\ total_value' = 0
            /\ beta' = Beta(max_weight, p_min, p_max)
            /\ err' = err
    /\ UNCHANGED <<args, threshold, ret, tvars>>

\* for item in items: one iteration.
Iterate ==
    /\ pc = "loop" /\ idx <= Len(items)
    /\ threshold' = Threshold(y, beta, p_min)
    /\ LET st == OnlineStep([y |-> y, total_value |-> total_value], items[idx],
                            beta, p_min, max_weight)
       IN  y' = st.y /\ total_value' = st.total_value
    /\ idx' = idx + 1
    /\ UNCHANGED <<args, pc, beta, ret, err, tvars>>

\* return total_value
Return ==
    /\ pc = "loop" /\ idx > Len(items)
    /\ pc' = "done" /\ ret' = Some(total_value)
    /\ UNCHANGED <<args, beta, idx, y, total_value, threshold, err, tvars>>

Next == Call \/ Iterate \/ Return

Spec == Init /\ [][Next]_vars

\* ------------------------------------------------------------------ test()
\* (p_min, p_max), n, epsilon and max_weight given to test(); max_weight = -1
\* makes the linear program infeasible.
TestDensities == {<<1, 3>>, <<2, 2>>}
TestSizes == {1, 2}
TestEpsilons == {1, MaxWeight}
TestCapacities == {-1, 0, 2, MaxCap}

InitTest ==
    /\ items = <<>>
    /\ \E d \in TestDensities : p_min = d[1] /\ p_max = d[2]
    /\ max_weight \in TestCapacities
    /\ OnlineIdle
    /\ tpc = "loop" /\ n \in TestSizes /\ epsilon \in TestEpsilons
    /\ adverserial \in BOOLEAN /\ trial = 0
    /\ weights = <<>> /\ values = <<>>
    /\ status = 0 /\ fun = None /\ offline = None /\ online = None
    /\ offline_results = <<>> /\ online_results = <<>>
    /\ means = <<>> /\ terr = "none"

\* The items of the trial's draws, in generation order.
Zipped(vs, ws) == [i \in DOMAIN ws |-> Item(vs[i], ws[i], vs[i] \div ws[i])]

\* weights and values are drawn, the items built and, if adverserial, sorted.
\* np.random.uniform(0, epsilon) gives the weights 1..epsilon, and
\* np.random.uniform(p_min, p_max) the densities p_min..p_max.
Generate ==
    /\ tpc = "loop" /\ trial < MaxTrials
    /\ \E ws \in [1..n -> 1..epsilon], ds \in [1..n -> p_min..p_max] :
          /\ weights' = ws
          /\ values' = [i \in 1..n |-> ds[i] * ws[i]]
          /\ items' = IF adverserial THEN SortedByRatio(Zipped(values', ws))
                      ELSE Zipped(values', ws)
    /\ tpc' = "offline"
    /\ UNCHANGED <<p_min, p_max, max_weight, ovars, n, epsilon, adverserial, trial,
                   status, fun, offline, online, offline_results, online_results,
                   means, terr>>

\* offline = -offline_knapsack(items, max_weight): the negation of None raises
\* TypeError, which leaves test().
Offline ==
    /\ tpc = "offline"
    /\ \E numerical \in BOOLEAN :
          LET r == offline_knapsack(items, max_weight, numerical)
          IN  /\ status' = r.status
              /\ fun' = r.ret
              /\ IF r.ret.none
                 THEN tpc' = "raised" /\ terr' = "TypeError" /\ offline' = offline
                 ELSE tpc' = "online" /\ terr' = terr /\ offline' = Some(-r.ret.v)
    /\ UNCHANGED <<args, ovars, n, epsilon, adverserial, trial, weights, values,
                   online, offline_results, online_results, means>>

\* online = online_knapsack(items, p_min, p_max, max_weight)
Online ==
    /\ tpc = "online"
    /\ online' = Some(online_knapsack(items, p_min, p_max, max_weight))
    /\ tpc' = "record"
    /\ UNCHANGED <<args, ovars, n, epsilon, adverserial, trial, weights, values,
                   status, fun, offline, offline_results, online_results, means, terr>>

\* The two appends, and the loop's next i.  The trial's locals are dead from
\* here to their next assignment and are cleared.
Record ==
    /\ tpc = "record"
    /\ offline_results' = Append(offline_results, offline.v)
    /\ online_results' = Append(online_results, online.v)
    /\ trial' = trial + 1
    /\ tpc' = "loop"
    /\ items' = <<>> /\ weights' = <<>> /\ values' = <<>>
    /\ status' = 0 /\ fun' = None /\ offline' = None /\ online' = None
    /\ UNCHANGED <<p_min, p_max, max_weight, ovars, n, epsilon, adverserial,
                   means, terr>>

RECURSIVE Sum(_)
Sum(s) == IF s = <<>> THEN 0 ELSE Head(s) + Sum(Tail(s))

\* np.mean of a non-empty list, as the fraction sum / count.
Mean(s) == [sum |-> Sum(s), count |-> Len(s)]

\* return np.mean(offline_results), np.mean(online_results)
ReturnMeans ==
    /\ tpc = "loop" /\ trial = MaxTrials
    /\ means' = <<Mean(offline_results), Mean(online_results)>>
    /\ tpc' = "done"
    /\ UNCHANGED <<args, ovars, n, epsilon, adverserial, trial, weights, values,
                   status, fun, offline, online, offline_results, online_results,
                   terr>>

NextTest == Generate \/ Offline \/ Online \/ Record \/ ReturnMeans

SpecTest == InitTest /\ [][NextTest]_vars

\* ------------------------------------------------- claims on online_knapsack
Running == pc \in {"loop", "done"}
ValidDensities == 0 < p_min /\ p_min <= p_max

\* (y, total_value) after the first k items of the run.
After(k) ==
    OnlineLoop([y |-> 0, total_value |-> 0], SubSeq(items, 1, k), 1,
               beta, p_min, max_weight)

\* C1: the accepted weight never exceeds max_weight, after every step of
\* online_knapsack and not only at its return.
CapacityKept == y <= max_weight

\* An item above the threshold was skipped because it did not fit.
CapacityKeptWitness ==
    /\ pc = "loop" /\ idx > 2 /\ ValidDensities
    /\ After(idx - 2).y > 0
    /\ y = After(idx - 2).y
    /\ Gt(Real(items[idx - 1].ratio * SCALE), threshold)
    /\ y + items[idx - 1].weight > max_weight

RECURSIVE SumOver(_, _)
SumOver(f, S) ==
    IF S = {} THEN 0
    ELSE LET i == CHOOSE i \in S : TRUE IN f[i] + SumOver(f, S \ {i})

\* The maximum of sum value_i x_i over sum weight_i x_i <= cap, 0 <= x_i <= 1:
\* taken at a vertex, that is a set of whole items and at most one item in part.
FractionalOptimum(its, cap) ==
    LET w == [i \in DOMAIN its |-> its[i].weight]
        v == [i \in DOMAIN its |-> its[i].value]
        whole == {S \in SUBSET DOMAIN its : SumOver(w, S) <= cap}
        vertex == {SumOver(v, S) : S \in whole}
                  \cup {SumOver(v, S) + (v[j] * (cap - SumOver(w, S))) \div w[j] :
                          <<S, j>> \in {<<S, j>> \in whole \X DOMAIN its :
                                          j \notin S /\ cap - SumOver(w, S) < w[j]}}
    IN  CHOOSE m \in vertex : \A o \in vertex : o <= m

\* C2: the value online_knapsack returns is at most the offline fractional
\* optimum of the same items under the same budget.
OnlineAtMostOffline ==
    pc = "done" => ret.v <= FractionalOptimum(items, max_weight)

\* The online run returned a positive value strictly below the optimum.
OnlineAtMostOfflineWitness ==
    /\ pc = "done" /\ ValidDensities
    /\ ret.v > 0 /\ ret.v < FractionalOptimum(items, max_weight)

\* The threshold of the specification: p_min below beta, p_min exp(y/beta - 1)
\* from beta on, beta = max_weight / (1 + ln(p_max / p_min)).
StatedThreshold(w) ==
    LET b == Beta(max_weight, p_min, p_max)
    IN  IF Lt(Real(w * SCALE), b) THEN Real(p_min * SCALE)
        ELSE LET q == Quotient(w, b)
                 e == IF q.nan THEN NaN ELSE Exp(Real(q.v - SCALE))
             IN  IF e.nan THEN NaN ELSE Real(p_min * e.v)

\* C3: each step takes the next item once; it accepts the item iff its ratio
\* is above the stated threshold and it fits; an accepted item adds its whole
\* weight and value, a skipped one leaves both unchanged.
StepRule ==
    [][(pc = "loop" /\ pc' = "loop")
        => LET item == items[idx]
               accept == /\ Gt(Real(item.ratio * SCALE), StatedThreshold(y))
                         /\ y + item.weight <= max_weight
           IN  /\ idx' = idx + 1
               /\ threshold' = StatedThreshold(y)
               /\ accept => /\ y' = y + item.weight
                            /\ total_value' = total_value + item.value
               /\ ~accept => /\ y' = y
                             /\ total_value' = total_value]_vars

\* The scenario of the specification: accept, reject on the ratio, accept.
StepRuleWitness ==
    /\ pc = "done" /\ Len(items) = 3 /\ p_min = 1 /\ p_max = 5
    /\ items[2].ratio <= p_min
    /\ y = items[1].weight + items[3].weight
    /\ total_value = items[1].value + items[3].value

RECURSIVE FixedThreshold(_, _, _, _, _)
\* The greedy baseline: in arrival order, every item above d that still fits.
FixedThreshold(st, its, k, d, cap) ==
    IF k > Len(its) THEN st
    ELSE LET take == its[k].ratio > d /\ st.y + its[k].weight <= cap
         IN  FixedThreshold(IF take THEN [y |-> st.y + its[k].weight,
                                          total_value |-> st.total_value + its[k].value]
                            ELSE st,
                            its, k + 1, d, cap)

Degenerate == Running /\ p_min = p_max

Baseline ==
    FixedThreshold([y |-> 0, total_value |-> 0], SubSeq(items, 1, idx - 1), 1,
                   p_min, max_weight)

\* C4 as stated: with p_min = p_max = d the threshold is d at every step and
\* the run is the greedy baseline.
DegenerateThreshold ==
    Degenerate => /\ idx > 1 => threshold = Real(p_min * SCALE)
                  /\ y = Baseline.y /\ total_value = Baseline.total_value

\* C4, amended: with p_min = p_max = d the run is the greedy baseline, and for
\* max_weight > 0 the threshold is d at every step, also at y = max_weight.
DegenerateThresholdPositive ==
    Degenerate => /\ (idx > 1 /\ max_weight > 0) => threshold = Real(p_min * SCALE)
                  /\ y = Baseline.y /\ total_value = Baseline.total_value

\* An item above d is skipped for its weight and a later item is accepted,
\* which fills the knapsack.
DegenerateThresholdWitness ==
    /\ Degenerate /\ pc = "done" /\ Len(items) = 3
    /\ items[2].ratio > p_min
    /\ After(1).y > 0 /\ After(2).y = After(1).y
    /\ y > After(2).y /\ y = max_weight

\* C6 as stated: with p_min <= 0 the call fails with DomainError before any
\* item is processed.
DomainErrorRaised ==
    p_min <= 0 => /\ pc \in {"call", "raised"}
                  /\ pc = "raised" => err = "DomainError"

\* C9: for 0 < p_min <= p_max and max_weight > 0 the threshold is
\* non-decreasing in the accepted weight over 0..max_weight.
ThresholdMonotone ==
    (Running /\ ValidDensities /\ max_weight > 0)
        => LET t == {<<w, Threshold(w, beta, p_min)>> : w \in 0..max_weight}
           IN  \A a, b \in t :
                  a[1] <= b[1] => ~a[2].nan /\ ~b[2].nan /\ a[2].v <= b[2].v

\* A run that used the constant branch and then the exponential branch, above p_min.
ThresholdMonotoneWitness ==
    /\ pc = "loop" /\ ValidDensities /\ idx > 2
    /\ Lt(Real(0), beta) /\ ~Lt(Real(y * SCALE), beta)
    /\ threshold.v > p_min * SCALE
    /\ Threshold(0, beta, p_min).v < threshold.v

\* C10: the accepted value is at least p_min times the accepted weight, and
\* more once an item has been accepted.
ValueAboveFloor ==
    ValidDensities => /\ total_value >= p_min * y
                      /\ y > 0 => total_value > p_min * y

\* Two items have been accepted.
ValueAboveFloorWitness ==
    /\ pc = "loop" /\ ValidDensities /\ idx > 2
    /\ After(1).y > 0 /\ y > After(1).y

\* --------------------------------------------------------- claims on test()
\* The items of the trial in generation order.
Generated == Zipped(values, weights)

\* C5: the offline value of a trial is the same for the generation order and
\* for the ascending-ratio order of its items (the online value need not be).
OfflineOrderInvariant ==
    tpc \in {"online", "record"}
        => /\ offline = Some(-offline_knapsack(Generated, max_weight, FALSE).ret.v)
           /\ offline = Some(-offline_knapsack(SortedByRatio(Generated), max_weight,
                                               FALSE).ret.v)

\* An adversarial trial whose online value differs from the online value of
\* the generation order.
OfflineOrderInvariantWitness ==
    /\ tpc = "record" /\ adverserial /\ items # Generated
    /\ online.v # online_knapsack(Generated, p_min, p_max, max_weight)

\* C7 as stated: a solver failure is surfaced as OptimizationError, and the
\* failed trial adds no entry to the result lists.
SolverFailureSurfaced ==
    status # 0 => /\ tpc = "raised" /\ terr = "OptimizationError"
                  /\ Len(offline_results) = trial /\ Len(online_results) = trial

\* C8 as stated: offline_knapsack returns the maximum achievable value.
OfflineReturnsMaximum ==
    tpc \in {"online", "record"} => fun = Some(FractionalOptimum(items, max_weight))

\* What offline_knapsack returns at status 0: the optimum, negated.
OfflineReturnsNegatedMaximum ==
    tpc \in {"online", "record"} => fun = Some(-FractionalOptimum(items, max_weight))

=============================================================================
